---------------------------- MODULE Spec2Model ----------------------------
(***************************************************************************)
(* Model of code-samples/json_cleaner.js: the credit-bureau JSON           *)
(* normaliser (parseMonetaryValue, processDetailBlock, cleanCreditData).   *)
(*                                                                         *)
(* JavaScript values are tagged records:                                   *)
(*   [t |-> "undefined"], [t |-> "null"], [t |-> "boolean", b |-> ...],    *)
(*   [t |-> "number", nan |-> ..., m |-> ..., e |-> ...]   (m * 10^-e),    *)
(*   [t |-> "string", s |-> <<characters>>],                               *)
(*   [t |-> "array", a |-> <<values>>],                                    *)
(*   [t |-> "object", o |-> function from own keys to values],             *)
(* and [t |-> "throw"] stands for a call that ended in a TypeError.        *)
(* Numbers are exact decimals: the binary rounding of IEEE doubles is not  *)
(* modelled.  Own-key order of objects is not modelled.                    *)
(***************************************************************************)
EXTENDS Integers, Sequences, FiniteSets, TLC

VARIABLES call, section, arg, result

vars == <<call, section, arg, result>>

\* ------------------------------------------------------------------ bounds

\* Longest generated string handed to the scalar parsers.
MaxStrLen == 3

\* Longest generated raw record list.
MaxRecords == 2

\* ------------------------------------------------------------ JS values

Undefined == [t |-> "undefined"]

Null == [t |-> "null"]

Throw == [t |-> "throw"]

Bool(b) == [t |-> "boolean", b |-> b]

Str(s) == [t |-> "string", s |-> s]

Arr(a) == [t |-> "array", a |-> a]

Obj(o) == [t |-> "object", o |-> o]

NaN == [t |-> "number", nan |-> TRUE, m |-> 0, e |-> 0]

RECURSIVE Pow10(_)
Pow10(k) == IF k = 0 THEN 1 ELSE 10 * Pow10(k - 1)

\* The number m * 10^-e, in its one normal form (no trailing decimal zero).
RECURSIVE Num(_, _)
Num(m, e) ==
  IF e > 0 /\ m % 10 = 0
    THEN Num(m \div 10, e - 1)
    ELSE [t |-> "number", nan |-> FALSE, m |-> m, e |-> e]

Int2Num(i) == Num(i, 0)

\* a + b of two numbers; NaN is absorbing.
NumAdd(a, b) ==
  IF a.nan \/ b.nan
    THEN NaN
    ELSE LET e == IF a.e > b.e THEN a.e ELSE b.e
         IN Num(a.m * Pow10(e - a.e) + b.m * Pow10(e - b.e), e)

\* ToBoolean: undefined, null, false, 0, NaN and "" are falsy.
Truthy(v) ==
  CASE v.t = "undefined" -> FALSE
    [] v.t = "null" -> FALSE
    [] v.t = "boolean" -> v.b
    [] v.t = "number" -> ~v.nan /\ v.m # 0
    [] v.t = "string" -> v.s # <<>>
    [] OTHER -> TRUE

\* a || b
Or(a, b) == IF Truthy(a) THEN a ELSE b

\* v[k] on a value that is neither undefined nor null.  The keys the program
\* reads are no property of any prototype, so only own keys of objects count.
Get(v, k) ==
  IF v.t = "object" /\ k \in DOMAIN v.o THEN v.o[k] ELSE Undefined

\* v?.[k]
OptGet(v, k) ==
  IF v.t \in {"undefined", "null"} THEN Undefined ELSE Get(v, k)

\* typeof v === "object"
TypeofObject(v) == v.t \in {"object", "array", "null"}

\* ------------------------------------------------------------ characters

Digits == {"0", "1", "2", "3", "4", "5", "6", "7", "8", "9"}

DigitVal(c) ==
  CASE c = "0" -> 0 [] c = "1" -> 1 [] c = "2" -> 2 [] c = "3" -> 3
    [] c = "4" -> 4 [] c = "5" -> 5 [] c = "6" -> 6 [] c = "7" -> 7
    [] c = "8" -> 8 [] c = "9" -> 9

DigitChar(d) ==
  CASE d = 0 -> "0" [] d = 1 -> "1" [] d = 2 -> "2" [] d = 3 -> "3"
    [] d = 4 -> "4" [] d = 5 -> "5" [] d = 6 -> "6" [] d = 7 -> "7"
    [] d = 8 -> "8" [] d = 9 -> "9"

RECURSIVE DigitsValue(_)
DigitsValue(s) ==
  IF s = <<>> THEN 0
  ELSE 10 * DigitsValue(SubSeq(s, 1, Len(s) - 1)) + DigitVal(s[Len(s)])

\* Length of the run of decimal digits of s that starts at position i.
RECURSIVE DigitRun(_, _)
DigitRun(s, i) ==
  IF i <= Len(s) /\ s[i] \in Digits THEN 1 + DigitRun(s, i + 1) ELSE 0

\* Number of leading white-space characters of s from position i on.
RECURSIVE SpaceRun(_, _)
SpaceRun(s, i) ==
  IF i <= Len(s) /\ s[i] = " " THEN 1 + SpaceRun(s, i + 1) ELSE 0

\* ------------------------------------------------------ built-in parsers

\* parseFloat on a string: leading white space, an optional sign, then the
\* longest prefix "digits", "digits.", "digits.digits" or ".digits".  The
\* characters of the model hold no exponent mark and no "Infinity".
parseFloatStr(s) ==
  LET i0 == 1 + SpaceRun(s, 1)
      neg == i0 <= Len(s) /\ s[i0] = "-"
      i1 == IF i0 <= Len(s) /\ s[i0] \in {"-", "+"} THEN i0 + 1 ELSE i0
      n1 == DigitRun(s, i1)
      dot == i1 + n1 <= Len(s) /\ s[i1 + n1] = "."
      n2 == IF dot THEN DigitRun(s, i1 + n1 + 1) ELSE 0
      mant == DigitsValue(SubSeq(s, i1, i1 + n1 - 1)
                          \o SubSeq(s, i1 + n1 + 1, i1 + n1 + n2))
  IN IF n1 + n2 = 0 THEN NaN
     ELSE Num(IF neg THEN 0 - mant ELSE mant, n2)

\* parseInt on a string, radix 10: leading white space, an optional sign,
\* then the longest run of digits.  The characters of the model hold no "x",
\* so the hexadecimal prefix does not arise.
parseIntStr(s) ==
  LET i0 == 1 + SpaceRun(s, 1)
      neg == i0 <= Len(s) /\ s[i0] = "-"
      i1 == IF i0 <= Len(s) /\ s[i0] \in {"-", "+"} THEN i0 + 1 ELSE i0
      n1 == DigitRun(s, i1)
      mant == DigitsValue(SubSeq(s, i1, i1 + n1 - 1))
  IN IF n1 = 0 THEN NaN
     ELSE Num(IF neg THEN 0 - mant ELSE mant, 0)

\* s.replace(/\./g, "")
RemoveDots(s) == SelectSeq(s, LAMBDA c : c # ".")

\* s.replace(",", "."): the first comma only.
RECURSIVE ReplaceFirstComma(_)
ReplaceFirstComma(s) ==
  IF s = <<>> THEN <<>>
  ELSE IF Head(s) = "," THEN <<".">> \o Tail(s)
  ELSE <<Head(s)>> \o ReplaceFirstComma(Tail(s))

\* The decimal digits of a natural number.
RECURSIVE NatChars(_)
NatChars(n) ==
  IF n < 10 THEN <<DigitChar(n)>>
  ELSE Append(NatChars(n \div 10), DigitChar(n % 10))

\* The e decimal digits of the fraction f < 10^e, with its leading zeros.
RECURSIVE FracChars(_, _)
FracChars(f, e) ==
  IF e = 0 THEN <<>>
  ELSE Append(FracChars(f \div 10, e - 1), DigitChar(f % 10))

\* Number::toString, for the magnitudes that print without an exponent.
NumChars(n) ==
  IF n.nan THEN <<"N", "a", "N">>
  ELSE LET a == IF n.m < 0 THEN 0 - n.m ELSE n.m
           p == Pow10(n.e)
       IN (IF n.m < 0 THEN <<"-">> ELSE <<>>)
          \o NatChars(a \div p)
          \o (IF n.e = 0 THEN <<>> ELSE <<".">> \o FracChars(a % p, n.e))

ObjectObject ==
  <<"[", "o", "b", "j", "e", "c", "t", " ", "O", "b", "j", "e", "c", "t", "]">>

\* ToString(v), the conversion parseInt and a template literal apply to
\* their operand: a string value, or Throw.  A parsed JSON object never holds
\* a function, so an own key "toString" hides Object.prototype.toString
\* behind a value that cannot be called; OrdinaryToPrimitive then tries
\* valueOf, which yields no primitive (an own "valueOf" cannot be called and
\* Object.prototype.valueOf returns the object), and a TypeError is thrown.
\* An array is joined with ",", undefined and null elements printing empty.
RECURSIVE ToStringJS(_)
ToStringJS(v) ==
  CASE v.t = "undefined" -> Str(<<"u", "n", "d", "e", "f", "i", "n", "e", "d">>)
    [] v.t = "null" -> Str(<<"n", "u", "l", "l">>)
    [] v.t = "boolean" ->
         IF v.b THEN Str(<<"t", "r", "u", "e">>)
         ELSE Str(<<"f", "a", "l", "s", "e">>)
    [] v.t = "number" -> Str(NumChars(v))
    [] v.t = "string" -> v
    [] v.t = "object" ->
         IF "toString" \in DOMAIN v.o THEN Throw ELSE Str(ObjectObject)
    [] v.t = "array" ->
         LET part(i) == IF v.a[i].t \in {"undefined", "null"}
                          THEN Str(<<>>) ELSE ToStringJS(v.a[i])
             join[i \in 0..Len(v.a)] ==
               IF i = 0 THEN <<>>
               ELSE (IF i = 1 THEN <<>> ELSE join[i - 1] \o <<",">>)
                    \o part(i).s
         IN IF \E i \in 1..Len(v.a) : part(i) = Throw
              THEN Throw ELSE Str(join[Len(v.a)])
    [] OTHER -> Throw

\* parseInt(v): a number, or Throw when ToString(v) throws.
parseInt(v) ==
  LET s == ToStringJS(v)
  IN IF s = Throw THEN Throw ELSE parseIntStr(s.s)

\* s.trim()
RECURSIVE TrimEnd(_)
TrimEnd(s) ==
  IF s # <<>> /\ s[Len(s)] = " " THEN TrimEnd(SubSeq(s, 1, Len(s) - 1)) ELSE s

Trim(s) == TrimEnd(SubSeq(s, 1 + SpaceRun(s, 1), Len(s)))

\* ------------------------------------------------------ parseMonetaryValue

parseMonetaryValue(valueStr) ==
  IF valueStr.t # "string" THEN Int2Num(0)
  ELSE parseFloatStr(ReplaceFirstComma(RemoveDots(valueStr.s)))

\* --------------------------------------------------- processDetailBlock

\* A dataKey argument: null, or a key.
NoKey == [t |-> "null", k |-> ""]

Key(k) == [t |-> "key", k |-> k]

KeyTruthy(dataKey) == dataKey.t = "key" /\ dataKey.k # ""

RegistroS == Str(<<"S">>)

Placeholder == Str(<<"-">>)

\* resolveRawData with the REGISTRO test of its third branch left out: every
\* object that is no wrapper counts as a single record.
resolveRawData_anyObject(detailBlock, dataKey) ==
  IF detailBlock.t = "array"
    THEN [found |-> TRUE, raw |-> detailBlock]
  ELSE IF /\ KeyTruthy(dataKey)
          /\ Get(detailBlock, "REGISTRO") = RegistroS
          /\ Truthy(Get(detailBlock, dataKey.k))
    THEN [found |-> TRUE, raw |-> Get(detailBlock, dataKey.k)]
  ELSE IF TypeofObject(detailBlock)
    THEN [found |-> TRUE, raw |-> detailBlock]
  ELSE [found |-> FALSE, raw |-> Undefined]

\* Lines 43-60: the raw data of a truthy block, or none (the fallback).
resolveRawData(detailBlock, dataKey) ==
  IF detailBlock.t = "array"
    THEN [found |-> TRUE, raw |-> detailBlock]
  ELSE IF /\ KeyTruthy(dataKey)
          /\ Get(detailBlock, "REGISTRO") = RegistroS
          /\ Truthy(Get(detailBlock, dataKey.k))
    THEN [found |-> TRUE, raw |-> Get(detailBlock, dataKey.k)]
  ELSE IF TypeofObject(detailBlock) /\ Get(detailBlock, "REGISTRO") = RegistroS
    THEN [found |-> TRUE, raw |-> detailBlock]
  ELSE [found |-> FALSE, raw |-> Undefined]

\* Line 63: Array.isArray(rawData) ? rawData : [rawData]
toDataArray(rawData) ==
  IF rawData.t = "array" THEN rawData.a ELSE <<rawData>>

\* newItem[k] = v
Put(o, k, v) == [x \in DOMAIN o \cup {k} |-> IF x = k THEN v ELSE o[x]]

\* copyField storing the parsed amount instead of the source string.
copyField_parsed(item, pair, newItem) ==
  LET v == Get(item, pair[1])
  IN IF Truthy(v) /\ v # Placeholder
       THEN Put(newItem, pair[2],
                IF v.t = "string" THEN parseMonetaryValue(v) ELSE v)
       ELSE newItem

\* Lines 73-75: the body of the loop over the rename map.
copyField(item, pair, newItem) ==
  LET v == Get(item, pair[1])
  IN IF Truthy(v) /\ v # Placeholder THEN Put(newItem, pair[2], v) ELSE newItem

\* Lines 70-77: the loop over keyMap, a sequence of <<oldKey, newKey>>.
RECURSIVE renameKeys(_, _, _, _)
renameKeys(item, keyMap, i, newItem) ==
  IF i > Len(keyMap) THEN newItem
  ELSE renameKeys(item, keyMap, i + 1, copyField(item, keyMap[i], newItem))

\* Lines 67-78: the map callback.
mapItem(item, keyMap) ==
  IF ~TypeofObject(item) \/ item = Null THEN Null
  ELSE Obj(renameKeys(item, keyMap, 1, <<>>))

\* keepItem without the test for a record with no keys.
keepItem_nonNull(item) == item # Null

\* Line 79: the filter callback.
keepItem(item) == item # Null /\ DOMAIN item.o # {}

\* Lines 66-79
mapAndClean(dataArray, keyMap) ==
  LET mapped == [i \in 1..Len(dataArray) |-> mapItem(dataArray[i], keyMap)]
  IN Arr(SelectSeq(mapped, keepItem))

processDetailBlock(detailBlock, dataKey, keyMap) ==
  IF ~Truthy(detailBlock) THEN Arr(<<>>)
  ELSE LET r == resolveRawData(detailBlock, dataKey)
       IN IF ~r.found THEN Arr(<<>>)
          ELSE mapAndClean(toDataArray(r.raw), keyMap)

\* The six record sections of cleanCreditData (lines 144-204): the output
\* name, the key of the block in the credit report, dataKey and the rename map.
Sections ==
  << [name |-> "riskScore",
      anchor |-> "SCORE-CLASSIFICACAO-VARIOS-MODELOS",
      dataKey |-> NoKey,
      keyMap |-> << <<"NOMESCORE", "scoreName">>, <<"SCORE", "points">>,
                    <<"CLASSIFICACAOALFABETICA", "ratingClass">>,
                    <<"TEXTO", "description">>,
                    <<"DESCRICAONATUREZA", "type">> >>],
     [name |-> "debts",
      anchor |-> "DEBITOS",
      dataKey |-> Key("DEBITO"),
      keyMap |-> << <<"DATAOCORRENCIA", "date">>, <<"VALOR", "value">>,
                    <<"INFORMANTE", "creditor">>,
                    <<"CONTRATO", "contractId">> >>],
     [name |-> "protests",
      anchor |-> "TITULOS-PROTESTADOS",
      dataKey |-> Key("TITULO-PROTESTADO"),
      keyMap |-> << <<"DATAOCORRENCIA", "date">>, <<"VALOR", "value">>,
                    <<"CIDADE", "city">>,
                    <<"CARTORIO", "registryOffice">> >>],
     [name |-> "civilActions",
      anchor |-> "RELACAO-DE-ACOES-CIVEIS",
      dataKey |-> Key("ACAO-CIVEL"),
      keyMap |-> << <<"DATADISTRIBUICAO", "distributionDate">>,
                    <<"VALOR", "value">>, <<"ACAOCIVEL", "actionType">>,
                    <<"AUTOR", "plaintiff">> >>],
     [name |-> "bankruptcy",
      anchor |-> "RELACAO-FALENCIA-RECUPERACAO-JUDICIAL",
      dataKey |-> Key("FALENCIA-RECUPERACAO-JUDICIAL"),
      keyMap |-> << <<"RAZAOSOCIAL", "companyName">>,
                    <<"TIPOOCORRENCIA", "type">>,
                    <<"DATAOCORRENCIA", "date">> >>],
     [name |-> "corporateParticipation",
      anchor |-> "PARTICIPACOES-DO-DOCUMENTO-CONSULTADO",
      dataKey |-> Key("PARTICIPACAO-EM-EMPRESA"),
      keyMap |-> << <<"RAZAOSOCIAL", "companyName">>,
                    <<"NUMERODOCUMENTOB", "cnpj">>, <<"FUNCAO", "role">>,
                    <<"DATADEENTRADA", "entryDate">>,
                    <<"VALOREMPERCENTUAL", "ownershipPercentage">> >>] >>

SectionIds == 1..Len(Sections)

\* ------------------------------------------------------ cleanCreditData

\* Line 91: inputData?.body?.["SPCA-XML"]?.RESPOSTA?.ACERTA || {}
creditReportOf(inputData) ==
  Or(OptGet(OptGet(OptGet(OptGet(inputData, "body"), "SPCA-XML"),
                   "RESPOSTA"), "ACERTA"),
     Obj(<<>>))

\* Lines 97-98: parseInt(x) || 0
parseIntOrZero(x) == Or(parseInt(x), Int2Num(0))

\* Lines 128-140: parseInt(x || "0")
parseIntOfOrZero(x) == parseInt(Or(x, Str(<<"0">>)))

\* One interpolation of the address template: ${x || ""}
addressPart(x) == ToStringJS(Or(x, Str(<<>>)))

\* Lines 117-119: `${a || ""} ${b || ""}, ${c || ""}`.trim()
addressOf(loc) ==
  LET a == addressPart(OptGet(loc, "TIPOLOGRADOURO"))
      b == addressPart(OptGet(loc, "NOMELOGRADOURO"))
      c == addressPart(OptGet(loc, "NUMEROLOGRADOURO"))
  IN IF Throw \in {a, b, c} THEN Throw
     ELSE Str(Trim(a.s \o <<" ">> \o b.s \o <<",", " ">> \o c.s))

\* The record section Sections[i] of a credit report.
sectionOf(creditReport, i) ==
  processDetailBlock(Get(creditReport, Sections[i].anchor),
                     Sections[i].dataKey, Sections[i].keyMap)

\* The returned payload, or Throw when a conversion to string throws.
cleanCreditData(inputData) ==
  LET creditReport == creditReportOf(inputData)
      debitSummary == Get(creditReport, "RESUMO-OCORRENCIAS-DE-DEBITOS")
      qtyPrincipal == parseIntOrZero(OptGet(debitSummary, "TOTALDEVEDOR"))
      qtyGuarantor == parseIntOrZero(OptGet(debitSummary, "TOTALAVALISTA"))
      valPrincipal == parseMonetaryValue(OptGet(debitSummary, "VALORACOMULADO"))
      valGuarantor == parseMonetaryValue(OptGet(debitSummary, "VALORAVALISTA"))
      ident == Get(creditReport, "IDENTIFICACAO")
      loc == Get(creditReport, "LOCALIZACAO")
      protestSummary == Get(creditReport, "RESUMO-TITULOS-PROTESTADOS")
      address == addressOf(loc)
      protestsQty == parseIntOfOrZero(OptGet(protestSummary, "TOTAL"))
      legalActionsQty ==
        parseIntOfOrZero(OptGet(Get(creditReport, "RESUMO-DE-ACOES-CIVEIS"),
                                "QUANTIDADE"))
      bouncedChecksQty ==
        parseIntOfOrZero(
          OptGet(Get(creditReport, "RESUMO-DEVOLUCOES-INFORMADAS-PELO-CCF"),
                 "TOTALOCORRENCAS"))
  IN IF Throw \in {qtyPrincipal, qtyGuarantor, address, protestsQty,
                   legalActionsQty, bouncedChecksQty}
       THEN Throw
       ELSE Obj([
         identification |-> Obj([
           name |-> OptGet(ident, "NOME"),
           document |-> OptGet(ident, "DOCUMENTO"),
           birthDate |-> OptGet(ident, "DATANASCIMENTO"),
           taxStatus |-> OptGet(ident, "SITUACAORECEITA"),
           consumerStatus |->
             OptGet(Get(creditReport, "STATUS-CONSUMIDOR"), "MENSAGEM")]),
         location |-> Obj([
           address |-> address,
           city |-> OptGet(loc, "CIDADE"),
           state |-> OptGet(loc, "UNIDADEFEDERATIVA"),
           zipCode |-> OptGet(loc, "CEP")]),
         financialSummary |-> Obj([
           totalDebtsQty |-> NumAdd(qtyPrincipal, qtyGuarantor),
           totalDebtsValue |-> NumAdd(valPrincipal, valGuarantor),
           protestsQty |-> protestsQty,
           protestsValue |->
             parseMonetaryValue(OptGet(protestSummary, "VALORACUMULADO")),
           legalActionsQty |-> legalActionsQty,
           bouncedChecksQty |-> bouncedChecksQty]),
         riskScore |-> sectionOf(creditReport, 1),
         negativeDetails |-> Obj([
           debts |-> sectionOf(creditReport, 2),
           protests |-> sectionOf(creditReport, 3),
           civilActions |-> sectionOf(creditReport, 4),
           bankruptcy |-> sectionOf(creditReport, 5)]),
         corporateParticipation |-> sectionOf(creditReport, 6)])

\* ------------------------------------------------------------ inputs

Alphabet == {"0", "1", "5", ".", ",", "-", "a", " "}

RECURSIVE StringsUpTo(_)
StringsUpTo(n) ==
  IF n = 0 THEN {<<>>}
  ELSE LET shorter == StringsUpTo(n - 1)
       IN shorter \cup {Append(s, c) : s \in shorter, c \in Alphabet}

\* The strings the documentation names.
ExampleStrings ==
  { <<"1", ".", "2", "3", "4", ".", "5", "6", "7", ",", "8", "9">>,
    <<"1", ".", "2", "3", "4", ",", "5", "6">>,
    <<"1", ".", "0", "0", "0", ",", "0", "0">>,
    <<"1", "0", "0", ",", "0", "0">>,
    <<"5", "0", ",", "5", "0">>,
    <<"a", "b", "c">> }

NonStrings ==
  { Undefined, Null, Bool(TRUE), Bool(FALSE), Int2Num(0), Int2Num(5),
    Num(15, 1), Obj(<<>>), Arr(<<>>), Arr(<<Str(<<"1">>)>>) }

MoneyInputs ==
  NonStrings \cup {Str(s) : s \in StringsUpTo(MaxStrLen) \cup ExampleStrings}

\* What a field of a raw record may hold.
FieldValues ==
  { Placeholder, Str(<<>>), Str(<<"1", ".", "0", "0", "0", ",", "0", "0">>),
    Int2Num(0), Int2Num(7), Bool(TRUE), Null,
    Obj([TAMANHOREGISTRO |-> Str(<<"0", "6", "4">>)]),
    Arr(<<Str(<<"a">>)>>) }

\* A key no rename map holds.
UnmappedKey == "TAMANHOREGISTRO"

\* The object with the own keys ks, key k holding val[k].
MkObj(ks, val) == Obj([k \in ks |-> val[k]])

\* The raw records over the first two source keys of a rename map and the
\* unmapped key: every choice of present keys and of their values.
RecordPool(keyMap) ==
  LET k1 == keyMap[1][1]
      k2 == keyMap[2][1]
  IN UNION { { MkObj(ks, (k1 :> v1) @@ (k2 :> v2)
                          @@ (UnmappedKey :> Str(<<"0", "6", "4">>)))
               : v1 \in FieldValues, v2 \in FieldValues }
             : ks \in SUBSET {k1, k2, UnmappedKey} }

\* A few elements of a raw record list: records that keep fields, a record
\* that keeps none, and elements that are no record.
ElementPool(keyMap) ==
  LET k1 == keyMap[1][1]
      k2 == keyMap[2][1]
      k3 == keyMap[3][1]
  IN { Obj((k1 :> Str(<<"2", "0", "2", "3">>))
           @@ (k2 :> Str(<<"1", ".", "0", "0", "0", ",", "0", "0">>))
           @@ (k3 :> Placeholder)
           @@ (UnmappedKey :> Str(<<"0", "6", "4">>))),
       Obj((k1 :> Placeholder) @@ (k2 :> Str(<<"5", "0", ",", "5", "0">>))),
       Obj((k1 :> Placeholder) @@ (UnmappedKey :> Str(<<"0", "6", "4">>))),
       Obj((k3 :> Obj([REGISTRO |-> RegistroS]))),
       Null,
       Str(<<"a", "b", "c">>) }

RECURSIVE SeqsUpTo(_, _)
SeqsUpTo(S, n) ==
  IF n = 0 THEN {<<>>}
  ELSE LET shorter == SeqsUpTo(S, n - 1)
       IN shorter \cup {Append(s, x) : s \in shorter, x \in S}

\* The key a wrapper block holds its records under.
WrapKey(dataKey) == IF KeyTruthy(dataKey) THEN dataKey.k ELSE "REGISTROS"

\* The blocks handed to processDetailBlock for one section: absent and
\* scalar blocks, direct sequences, and objects with or without REGISTRO,
\* with or without the wrapper key, with or without a field of their own.
BlockPool(i) ==
  LET km == Sections[i].keyMap
      wk == WrapKey(Sections[i].dataKey)
      lists == {Arr(s) : s \in SeqsUpTo(ElementPool(km), MaxRecords)}
      payloads == lists \cup ElementPool(km)
                    \cup {Str(<<>>), Int2Num(0), Bool(FALSE)}
      flags == {RegistroS, Str(<<"N">>), Bool(TRUE)}
      own == {<<>>, (km[2][1] :> Str(<<"7", "5", ",", "1", "0">>))}
  IN { Undefined, Null, Str(<<>>), Int2Num(0), Bool(FALSE), Bool(TRUE),
       Int2Num(5), Str(<<"a", "b", "c">>) }
     \cup lists
     \cup {Arr(<<r>>) : r \in RecordPool(km)}
     \cup {Obj(o) : o \in own}
     \cup {Obj(("REGISTRO" :> f) @@ o) : f \in flags, o \in own}
     \cup {Obj((wk :> p) @@ o) : p \in payloads, o \in own}
     \cup {Obj(("REGISTRO" :> f) @@ (wk :> p) @@ o)
            : f \in flags, p \in payloads, o \in own}

\* The block of the documented end-to-end scenario (a DEBITOS wrapper).
ExampleDebitos ==
  Obj(("REGISTRO" :> RegistroS)
      @@ ("DEBITO" :> Arr(<<
            Obj([DATAOCORRENCIA |-> Str(<<"2", "0", "2", "3", "-", "0", "1",
                                          "-", "0", "1">>),
                 VALOR |-> Str(<<"1", ".", "0", "0", "0", ",", "0", "0">>),
                 INFORMANTE |-> Str(<<"B", "a", "n", "k", " ", "X">>),
                 CONTRATO |-> Placeholder]) >>)))

Blocks(i) == BlockPool(i) \cup (IF i = 2 THEN {ExampleDebitos} ELSE {})

\* A document whose anchor path leads to acerta.
Wrap(acerta) ==
  Obj([body |-> Obj(("SPCA-XML" :> Obj([RESPOSTA |-> Obj([ACERTA |-> acerta])])))])

\* A credit report that holds the one key k.
Report(k, v) == Obj((k :> v))

\* An object with an own key "toString", which JSON may hold.
OwnToString == Obj([toString |-> Int2Num(1)])

\* Values of unexpected type at a node that is read.
Surprises ==
  { Null, Bool(TRUE), Bool(FALSE), Int2Num(0), Int2Num(5), Num(15, 1),
    Str(<<>>), Str(<<"a", "b", "c">>), Obj(<<>>), OwnToString, Arr(<<>>),
    Arr(<<Str(<<"3">>)>>), Arr(<<Null, OwnToString>>) }

\* The documents cut off at the root or at a segment of the anchor path.
TruncatedDocs ==
  {Undefined} \cup Surprises
    \cup {Obj([body |-> c]) : c \in Surprises}
    \cup {Obj([body |-> Obj(("SPCA-XML" :> c))]) : c \in Surprises}
    \cup {Obj([body |-> Obj(("SPCA-XML" :> Obj([RESPOSTA |-> c])))])
           : c \in Surprises}
    \cup {Wrap(c) : c \in Surprises}

\* What a quantity field may hold (besides every short string).
QtyPool ==
  { Str(<<"3">>), Str(<<"1">>), Str(<<"a", "b", "c">>), Placeholder,
    Str(<<>>), Str(<<"0">>), Int2Num(3), Null, Bool(TRUE), Obj(<<>>),
    OwnToString, Arr(<<Str(<<"3">>)>>) }

\* What a monetary field may hold.
MoneyPool ==
  { Str(<<"1", "0", "0", ",", "0", "0">>), Str(<<"5", "0", ",", "5", "0">>),
    Str(<<"1", ".", "2", "3", "4", ".", "5", "6", "7", ",", "8", "9">>),
    Str(<<"a", "b", "c">>), Str(<<>>), Int2Num(5), Null, Obj(<<>>) }

\* The objects over keys ks, each key absent or holding a value of pool.
RECURSIVE ObjectsOver(_, _)
ObjectsOver(ks, pool) ==
  IF ks = {} THEN {<<>>}
  ELSE LET k == CHOOSE x \in ks : TRUE
           rest == ObjectsOver(ks \ {k}, pool)
       IN rest \cup {(k :> v) @@ o : v \in pool, o \in rest}

\* The debit summaries: two quantities, or two values, or all four fields.
DebitSummaries ==
  {Obj(o) : o \in ObjectsOver({"TOTALDEVEDOR", "TOTALAVALISTA"}, QtyPool)}
    \cup {Obj(o) : o \in ObjectsOver({"VALORACOMULADO", "VALORAVALISTA"},
                                       MoneyPool)}
    \cup {Obj([TOTALDEVEDOR |-> Str(<<"3">>), TOTALAVALISTA |-> Str(<<"1">>),
               VALORACOMULADO |-> Str(<<"1", "0", "0", ",", "0", "0">>),
               VALORAVALISTA |-> Str(<<"5", "0", ",", "5", "0">>)])}

QtyStrings == {Str(s) : s \in StringsUpTo(MaxStrLen)}

\* The keys of the three one-quantity summaries and of their quantity field.
QtySummaries ==
  { <<"RESUMO-TITULOS-PROTESTADOS", "TOTAL">>,
    <<"RESUMO-DE-ACOES-CIVEIS", "QUANTIDADE">>,
    <<"RESUMO-DEVOLUCOES-INFORMADAS-PELO-CCF", "TOTALOCORRENCAS">> }

AddressPool ==
  { Str(<<"R", "u", "a">>), Str(<<" ">>), Int2Num(12), Null, OwnToString,
    Arr(<<Str(<<"a">>), Str(<<"b">>)>>) }

ScalarNodes ==
  { <<"IDENTIFICACAO", "NOME">>, <<"IDENTIFICACAO", "DOCUMENTO">>,
    <<"IDENTIFICACAO", "DATANASCIMENTO">>,
    <<"IDENTIFICACAO", "SITUACAORECEITA">>,
    <<"STATUS-CONSUMIDOR", "MENSAGEM">>, <<"LOCALIZACAO", "CIDADE">>,
    <<"LOCALIZACAO", "UNIDADEFEDERATIVA">>, <<"LOCALIZACAO", "CEP">> }

SummaryKeys ==
  {"RESUMO-OCORRENCIAS-DE-DEBITOS"} \cup {q[1] : q \in QtySummaries}

\* The credit reports: one node populated, every other node absent.
Reports ==
  UNION {{Report(Sections[i].anchor, b) : b \in Blocks(i)} : i \in SectionIds}
    \cup {Report("RESUMO-OCORRENCIAS-DE-DEBITOS", d) : d \in DebitSummaries}
    \cup {Report(q[1], Obj((q[2] :> v))) : q \in QtySummaries, v \in QtyPool}
    \cup {Report("RESUMO-TITULOS-PROTESTADOS", Obj([TOTAL |-> v]))
           : v \in QtyStrings}
    \cup {Report("RESUMO-TITULOS-PROTESTADOS", Obj([VALORACUMULADO |-> v]))
           : v \in MoneyPool}
    \cup {Report("LOCALIZACAO", Obj(o))
           : o \in ObjectsOver({"TIPOLOGRADOURO", "NOMELOGRADOURO",
                                "NUMEROLOGRADOURO"}, AddressPool)}
    \cup {Report(n[1], Obj((n[2] :> v))) : n \in ScalarNodes, v \in Surprises}
    \cup {Report(k, v)
           : k \in SummaryKeys \cup {n[1] : n \in ScalarNodes}, v \in Surprises}

Documents == TruncatedDocs \cup {Wrap(r) : r \in Reports}

\* ------------------------------------------------------------ machine

Init ==
  /\ call = "none"
  /\ section = 0
  /\ arg = Undefined
  /\ result = Undefined

CallParseMonetaryValue ==
  /\ call = "none"
  /\ \E v \in MoneyInputs :
       /\ arg' = v
       /\ result' = parseMonetaryValue(v)
  /\ call' = "parseMonetaryValue"
  /\ section' = 0

CallProcessDetailBlock ==
  /\ call = "none"
  /\ \E i \in SectionIds :
       \E b \in Blocks(i) :
         /\ section' = i
         /\ arg' = b
         /\ result' = processDetailBlock(b, Sections[i].dataKey,
                                         Sections[i].keyMap)
  /\ call' = "processDetailBlock"

CallCleanCreditData ==
  /\ call = "none"
  /\ \E d \in Documents :
       /\ arg' = d
       /\ result' = cleanCreditData(d)
  /\ call' = "cleanCreditData"
  /\ section' = 0

\* The output of cleanCreditData handed back to it as a raw document; the
\* exception of a first call that threw propagates.
ReNormalize ==
  /\ call = "cleanCreditData"
  /\ result' = IF result = Throw THEN Throw ELSE cleanCreditData(result)
  /\ call' = "reNormalize"
  /\ UNCHANGED <<arg, section>>

Next ==
  \/ CallParseMonetaryValue
  \/ CallProcessDetailBlock
  \/ CallCleanCreditData
  \/ ReNormalize

Spec == Init /\ [][Next]_vars

\* ------------------------------------------------ what the claims expect

\* The arguments of the processDetailBlock call a state records.
DataKeyOfCall == Sections[section].dataKey

KeyMapOfCall == Sections[section].keyMap

\* The positions of the rename map whose source value in item is kept.
ExpectedKept(item, keyMap) ==
  { i \in 1..Len(keyMap) :
      /\ item.t = "object"
      /\ keyMap[i][1] \in DOMAIN item.o
      /\ Truthy(item.o[keyMap[i][1]])
      /\ item.o[keyMap[i][1]] # Placeholder }

\* The record a raw record is expected to become: every kept source value,
\* unchanged, under its output name.
ExpectedRecord(item, keyMap) ==
  LET kept == ExpectedKept(item, keyMap)
      names == {keyMap[i][2] : i \in kept}
      source(n) == keyMap[CHOOSE i \in kept : keyMap[i][2] = n][1]
  IN Obj([n \in names |-> item.o[source(n)]])

\* The sequence a raw record list is expected to become.
ExpectedRecords(list, keyMap) ==
  LET objects == SelectSeq(list, LAMBDA x : x.t = "object")
      records == [i \in 1..Len(objects) |-> ExpectedRecord(objects[i], keyMap)]
  IN Arr(SelectSeq(records, LAMBDA r : DOMAIN r.o # {}))

IsObject(v) == v.t = "object"

HasKey(v, k) == v.t = "object" /\ k \in DOMAIN v.o

\* A record, or a sequence of records.
IsRecords(v) ==
  \/ v.t = "object"
  \/ v.t = "array" /\ \A i \in 1..Len(v.a) : v.a[i].t = "object"

\* The six record sections of a payload.
SectionLists(payload) ==
  { payload.o.riskScore, payload.o.corporateParticipation,
    payload.o.negativeDetails.o.debts, payload.o.negativeDetails.o.protests,
    payload.o.negativeDetails.o.civilActions,
    payload.o.negativeDetails.o.bankruptcy }

\* The sequences of normalized records a state holds.
ListsOfState ==
  IF call = "processDetailBlock" THEN {result}
  ELSE IF call \in {"cleanCreditData", "reNormalize"} /\ result # Throw
    THEN SectionLists(result)
  ELSE {}

\* --------------------------------------------------------------------- C2

\* C2: processDetailBlock unifies the block shapes: (a) a direct sequence
\* yields the mapped records of the sequence; (b) a wrapper with REGISTRO "S"
\* holding records under dataKey yields the mapped records found there, a
\* single record like the one-element sequence holding it; (c) a bare object
\* with REGISTRO "S" and no dataKey match yields the mapped record built from
\* the block itself; (d) an object whose REGISTRO is not "S", and a falsy
\* block, yield the empty sequence.
C2_ShapeUnification ==
  call = "processDetailBlock" =>
    LET dk == DataKeyOfCall
        km == KeyMapOfCall
        flagged == IsObject(arg) /\ Get(arg, "REGISTRO") = RegistroS
        matched == KeyTruthy(dk) /\ HasKey(arg, dk.k)
    IN /\ arg.t = "array" => result = ExpectedRecords(arg.a, km)
       /\ (flagged /\ matched /\ IsRecords(arg.o[dk.k])) =>
            LET v == arg.o[dk.k]
            IN IF v.t = "array" THEN result = ExpectedRecords(v.a, km)
               ELSE /\ result = ExpectedRecords(<<v>>, km)
                    /\ result = processDetailBlock(
                                  Obj(Put(arg.o, dk.k, Arr(<<v>>))), dk, km)
       /\ (flagged /\ ~matched) => result = ExpectedRecords(<<arg>>, km)
       /\ (IsObject(arg) /\ Get(arg, "REGISTRO") # RegistroS) =>
            result = Arr(<<>>)
       /\ ~Truthy(arg) => result = Arr(<<>>)

\* A wrapper with REGISTRO "S" whose dataKey holds a sequence of two records,
\* both of which are emitted.
C2_Witness ==
  /\ call = "processDetailBlock"
  /\ IsObject(arg)
  /\ Get(arg, "REGISTRO") = RegistroS
  /\ KeyTruthy(DataKeyOfCall)
  /\ Get(arg, DataKeyOfCall.k).t = "array"
  /\ Len(Get(arg, DataKeyOfCall.k).a) = 2
  /\ Len(result.a) = 2

\* --------------------------------------------------------------------- C3

\* C3: no emitted record has zero keys and no emitted field holds the
\* placeholder "-": a mapped field whose source value is "-" is absent from
\* the output record, and a record whose every mapped field is absent or "-"
\* is dropped from the sequence.
C3_PlaceholderFiltering ==
  /\ \A list \in ListsOfState :
       /\ list.t = "array"
       /\ \A i \in 1..Len(list.a) :
            /\ list.a[i].t = "object"
            /\ DOMAIN list.a[i].o # {}
            /\ \A k \in DOMAIN list.a[i].o : list.a[i].o[k] # Placeholder
  /\ (call = "processDetailBlock" /\ arg.t = "array" /\ Len(arg.a) = 1
        /\ IsObject(arg.a[1])) =>
       LET km == KeyMapOfCall
           item == arg.a[1]
           blank(i) == ~HasKey(item, km[i][1]) \/ item.o[km[i][1]] = Placeholder
       IN /\ (\A i \in 1..Len(km) : blank(i)) => result = Arr(<<>>)
          /\ \A i \in 1..Len(km) :
               (HasKey(item, km[i][1]) /\ item.o[km[i][1]] = Placeholder) =>
                 \A j \in 1..Len(result.a) :
                   km[i][2] \notin DOMAIN result.a[j].o

\* A sequence of two records: the first holds "-" in a mapped field and is
\* emitted without it, the second holds "-" in its only mapped field and is
\* dropped.
C3_Witness ==
  /\ call = "processDetailBlock"
  /\ arg.t = "array"
  /\ Len(arg.a) = 2
  /\ Get(arg.a[1], KeyMapOfCall[1][1]) = Placeholder
  /\ Get(arg.a[2], KeyMapOfCall[1][1]) = Placeholder
  /\ IsObject(arg.a[2])
  /\ Len(result.a) = 1
  /\ DOMAIN result.a[1].o = {KeyMapOfCall[2][2]}

\* --------------------------------------------------------------------- C7

ExampleDebts ==
  Arr(<< Obj([date |-> Str(<<"2", "0", "2", "3", "-", "0", "1", "-", "0", "1">>),
              value |-> Str(<<"1", ".", "0", "0", "0", ",", "0", "0">>),
              creditor |-> Str(<<"B", "a", "n", "k", " ", "X">>)]) >>)

\* C7: for a resolved raw record list the result is, in input order, the
\* sequence of non-empty records that keep, for each object element, exactly
\* the rename-map source keys whose value is truthy and not "-", under the
\* mapped name and with the source value unchanged; unmapped source keys never
\* appear.  The documented DEBITOS block yields the documented debts.
C7_MappedRecords ==
  /\ (call = "processDetailBlock" /\ Truthy(arg)
        /\ resolveRawData(arg, DataKeyOfCall).found) =>
       result = ExpectedRecords(
                  toDataArray(resolveRawData(arg, DataKeyOfCall).raw),
                  KeyMapOfCall)
  /\ \A list \in ListsOfState :
       \A i \in 1..Len(list.a) : UnmappedKey \notin DOMAIN list.a[i].o
  /\ (call = "processDetailBlock" /\ section = 2 /\ arg = ExampleDebitos) =>
       result = ExampleDebts
  /\ (call = "cleanCreditData" /\ arg = Wrap(Report("DEBITOS", ExampleDebitos))) =>
       result # Throw /\ result.o.negativeDetails.o.debts = ExampleDebts

\* The documented scenario: cleanCreditData on a document whose DEBITOS is the
\* documented block returns the documented debts.
C7_Witness ==
  /\ call = "cleanCreditData"
  /\ arg = Wrap(Report("DEBITOS", ExampleDebitos))
  /\ result # Throw
  /\ result.o.negativeDetails.o.debts = ExampleDebts

\* --------------------------------------------------------------------- C1

\* The fixed field set of the payload, every record section a sequence.
HasPayloadShape(v) ==
  /\ v.t = "object"
  /\ DOMAIN v.o = {"identification", "location", "financialSummary",
                   "riskScore", "negativeDetails", "corporateParticipation"}
  /\ v.o.identification.t = "object"
  /\ DOMAIN v.o.identification.o =
       {"name", "document", "birthDate", "taxStatus", "consumerStatus"}
  /\ v.o.location.t = "object"
  /\ DOMAIN v.o.location.o = {"address", "city", "state", "zipCode"}
  /\ v.o.financialSummary.t = "object"
  /\ DOMAIN v.o.financialSummary.o =
       {"totalDebtsQty", "totalDebtsValue", "protestsQty", "protestsValue",
        "legalActionsQty", "bouncedChecksQty"}
  /\ v.o.negativeDetails.t = "object"
  /\ DOMAIN v.o.negativeDetails.o =
       {"debts", "protests", "civilActions", "bankruptcy"}
  /\ \A list \in SectionLists(v) : list.t = "array"

\* C1: for every JSON input value cleanCreditData returns without throwing,
\* and the returned object has the fixed field set, every record section
\* being a sequence.
C1_Totality ==
  call = "cleanCreditData" => result # Throw /\ HasPayloadShape(result)

\* --------------------------------------------------------------------- C4

\* A string in Brazilian notation: digits, in groups of three after "." when
\* "." is used, then one "," and at least one decimal digit.
IsBrazilian(s) ==
  \E c \in 2..(Len(s) - 1) :
    LET int == SubSeq(s, 1, c - 1)
        dec == SubSeq(s, c + 1, Len(s))
    IN /\ s[c] = ","
       /\ \A i \in 1..Len(dec) : dec[i] \in Digits
       /\ \A i \in 1..Len(int) : int[i] \in Digits \cup {"."}
       /\ int[1] # "."
       /\ \A i \in 1..Len(int) :
            int[i] = "." =>
              /\ i <= 4
                   \/ (i > 4 /\ int[i - 4] = ".")
              /\ i + 3 <= Len(int)
              /\ \A j \in (i + 1)..(i + 3) : int[j] \in Digits
              /\ i + 4 > Len(int) \/ int[i + 4] = "."

\* The number a string in Brazilian notation denotes.
Denoted(s) ==
  LET c == CHOOSE i \in 1..Len(s) : s[i] = ","
      int == SelectSeq(SubSeq(s, 1, c - 1), LAMBDA x : x \in Digits)
      dec == SubSeq(s, c + 1, Len(s))
  IN Num(DigitsValue(int \o dec), Len(dec))

\* C4: parseMonetaryValue returns 0 for every input that is no string and
\* for the empty string, and the denoted number for a string in Brazilian
\* notation ("1.234.567,89" gives 123456789 hundredths).
C4_ParseMonetary ==
  call = "parseMonetaryValue" =>
    /\ arg.t # "string" => result = Int2Num(0)
    /\ arg = Str(<<>>) => result = Int2Num(0)
    /\ (arg.t = "string" /\ IsBrazilian(arg.s)) => result = Denoted(arg.s)
    /\ arg = Str(<<"1", ".", "2", "3", "4", ".", "5", "6", "7", ",", "8", "9">>)
         => result = Num(123456789, 2)

\* --------------------------------------------------------------------- C5

\* The credit report of a document that reaches ACERTA with an object.
ReportOfArg == creditReportOf(arg)

\* The value at creditReport[node][field], Undefined when absent.
SourceAt(node, field) == OptGet(Get(ReportOfArg, node), field)

\* A source that is absent or a string.
IsOperand(v) == v = Undefined \/ v.t = "string"

\* Every source that cleanCreditData converts to a string (the quantities and
\* the parts of the address) is absent or a string.
PlainSources ==
  /\ IsOperand(SourceAt("RESUMO-OCORRENCIAS-DE-DEBITOS", "TOTALDEVEDOR"))
  /\ IsOperand(SourceAt("RESUMO-OCORRENCIAS-DE-DEBITOS", "TOTALAVALISTA"))
  /\ IsOperand(SourceAt("RESUMO-TITULOS-PROTESTADOS", "TOTAL"))
  /\ IsOperand(SourceAt("RESUMO-DE-ACOES-CIVEIS", "QUANTIDADE"))
  /\ IsOperand(SourceAt("RESUMO-DEVOLUCOES-INFORMADAS-PELO-CCF",
                        "TOTALOCORRENCAS"))
  /\ IsOperand(SourceAt("LOCALIZACAO", "TIPOLOGRADOURO"))
  /\ IsOperand(SourceAt("LOCALIZACAO", "NOMELOGRADOURO"))
  /\ IsOperand(SourceAt("LOCALIZACAO", "NUMEROLOGRADOURO"))

\* A quantity source that is absent, or a string that denotes no integer.
NoQuantity(v) == v = Undefined \/ (v.t = "string" /\ parseIntStr(v.s).nan)

\* C5: each quantity of financialSummary is 0, never not-a-number and never
\* a fault, when its source field is absent or holds a non-numeric value
\* such as "abc" or "-".
C5_QuantityDefault ==
  (call = "cleanCreditData" /\ PlainSources) =>
    /\ result # Throw
    /\ (/\ NoQuantity(SourceAt("RESUMO-OCORRENCIAS-DE-DEBITOS", "TOTALDEVEDOR"))
        /\ NoQuantity(SourceAt("RESUMO-OCORRENCIAS-DE-DEBITOS", "TOTALAVALISTA")))
         => result.o.financialSummary.o.totalDebtsQty = Int2Num(0)
    /\ NoQuantity(SourceAt("RESUMO-TITULOS-PROTESTADOS", "TOTAL"))
         => result.o.financialSummary.o.protestsQty = Int2Num(0)
    /\ NoQuantity(SourceAt("RESUMO-DE-ACOES-CIVEIS", "QUANTIDADE"))
         => result.o.financialSummary.o.legalActionsQty = Int2Num(0)
    /\ NoQuantity(SourceAt("RESUMO-DEVOLUCOES-INFORMADAS-PELO-CCF",
                           "TOTALOCORRENCAS"))
         => result.o.financialSummary.o.bouncedChecksQty = Int2Num(0)

\* --------------------------------------------------------------------- C6

\* A parsed operand, counted as 0 when it is not a number.
ZeroIfNaN(n) == IF n.nan THEN Int2Num(0) ELSE n

QuantityOf(v) == IF v = Undefined THEN Int2Num(0) ELSE ZeroIfNaN(parseIntStr(v.s))

MoneyOf(v) ==
  IF v = Undefined THEN Int2Num(0)
  ELSE ZeroIfNaN(parseFloatStr(ReplaceFirstComma(RemoveDots(v.s))))

\* C6: totalDebtsQty is the sum of the principal and guarantor quantities and
\* totalDebtsValue the sum of the principal and guarantor values, each operand
\* parsed on its own and an absent or unparsable operand counted as 0.
C6_Aggregation ==
  call = "cleanCreditData" =>
    LET qp == SourceAt("RESUMO-OCORRENCIAS-DE-DEBITOS", "TOTALDEVEDOR")
        qg == SourceAt("RESUMO-OCORRENCIAS-DE-DEBITOS", "TOTALAVALISTA")
        vp == SourceAt("RESUMO-OCORRENCIAS-DE-DEBITOS", "VALORACOMULADO")
        vg == SourceAt("RESUMO-OCORRENCIAS-DE-DEBITOS", "VALORAVALISTA")
    IN (PlainSources /\ IsOperand(vp) /\ IsOperand(vg)) =>
         /\ result # Throw
         /\ result.o.financialSummary.o.totalDebtsQty
              = NumAdd(QuantityOf(qp), QuantityOf(qg))
         /\ result.o.financialSummary.o.totalDebtsValue
              = NumAdd(MoneyOf(vp), MoneyOf(vg))

\* --------------------------------------------------------------------- C8

\* The degraded payload: every record section empty, every quantity and
\* monetary value 0, every projected scalar field undefined.
IsDegraded(v) ==
  /\ HasPayloadShape(v)
  /\ \A list \in SectionLists(v) : list = Arr(<<>>)
  /\ \A k \in DOMAIN v.o.financialSummary.o :
       v.o.financialSummary.o[k] = Int2Num(0)
  /\ \A k \in DOMAIN v.o.identification.o :
       v.o.identification.o[k] = Undefined
  /\ \A k \in {"city", "state", "zipCode"} : v.o.location.o[k] = Undefined

\* C8: for every raw document x, cleanCreditData(cleanCreditData(x)) does not
\* throw and equals the degraded payload cleanCreditData({}).
C8_ReNormalization ==
  call = "reNormalize" =>
    /\ result # Throw
    /\ result = cleanCreditData(Obj(<<>>))
    /\ IsDegraded(result)

\* --------------------------------------------------------------------- C9

\* C9: every value stored in an emitted record is a string or a number.
C9_ScalarValues ==
  call = "processDetailBlock" =>
    \A i \in 1..Len(result.a) :
      \A k \in DOMAIN result.a[i].o :
        result.a[i].o[k].t \in {"string", "number"}

\* -------------------------------------------------------------------- C10

\* C10: when the block is an object with REGISTRO "S" that contains the key
\* dataKey, the raw record list is the value at dataKey, whatever it is; the
\* block itself is a single bare record only when no dataKey match applies.
C10_Precedence ==
  (call = "processDetailBlock" /\ IsObject(arg)
     /\ Get(arg, "REGISTRO") = RegistroS) =>
    IF KeyTruthy(DataKeyOfCall) /\ HasKey(arg, DataKeyOfCall.k)
      THEN result = ExpectedRecords(toDataArray(arg.o[DataKeyOfCall.k]),
                                    KeyMapOfCall)
      ELSE result = ExpectedRecords(<<arg>>, KeyMapOfCall)

=============================================================================
